---- MODULE Spec2Model ----
(***************************************************************************)
(* A model of the propositional-logic engine: the formula AST and its      *)
(* evaluation (logic_core.py), forward chaining, backward chaining, the    *)
(* truth-table generator, and the recursive-descent parser (parser.py).    *)
(*                                                                         *)
(* Python strings that the code inspects (atom and fact names) are         *)
(* sequences of one-character strings, so that startswith, slicing and     *)
(* sorted() are computed rather than assumed.                              *)
(***************************************************************************)
EXTENDS Integers, Sequences, FiniteSets, TLC

VARIABLES
    \* inputs shared by forward_chain and backward_chain
    rules,          \* Sequence[Rule]
    \* forward_chain
    fc_pc,          \* "idle" | "for" | "done"
    initial_facts,  \* the argument initial_facts
    facts,          \* the working fact set (forward) / the argument facts (backward)
    steps,          \* List[ForwardStep]
    step_counter,
    fired_any,
    rule_idx,       \* position of the for loop over rules (1-based)
    contradictions, \* result of detect_contradictions at return
    pass_start,     \* history: the fact set when the current pass began
    \* backward_chain
    bc_pc,          \* "idle" | "run" | "done"
    goal,           \* the argument goal of the outermost call
    visited,        \* the one set object passed to every recursive call
    stack,          \* the active calls, outermost first
    ret,            \* <<>> or <<node>>: the ProofNode just returned
    attempts,       \* history: the rules tried by the call that just returned
    \* generate_truth_table
    tt_pc,          \* "idle" | "start" | "loop" | "done"
    formulas,       \* the argument formulas: a list of (name, formula)
    atoms_arg,      \* the argument atoms: None or a list of names
    filter_formula, \* the argument filter_formula: None or (name, formula)
    atom_list,
    values_i,       \* position of the for loop over product(...) (1-based)
    rows,           \* List[Dict[str, bool]]
    \* Parser
    ps_pc,          \* "idle" | "ready" | "done"
    tokens,         \* Parser.tokens
    pos,            \* Parser.pos (1-based here)
    parsed          \* what parse() returned or raised

fcvars == <<rules, fc_pc, initial_facts, facts, steps, step_counter, fired_any,
            rule_idx, contradictions, pass_start>>

bcvars == <<bc_pc, goal, visited, stack, ret, attempts>>

ttvars == <<tt_pc, formulas, atoms_arg, filter_formula, atom_list, values_i, rows>>

psvars == <<ps_pc, tokens, pos, parsed>>

vars == <<fcvars, bcvars, ttvars, psvars>>

----------------------------------------------------------------------------
(* Bounds of the model *)

MaxFcRules == 2
MaxSteps == 4
MaxBcRules == 3
MaxDepth == 6
MaxAtomList == 3
MaxFormulas == 2
MaxTokens == 4
MaxOperands == 3
MaxNots == 2

----------------------------------------------------------------------------
(* Python str: comparison, startswith, slicing *)

A == <<"A">>
B == <<"B">>
C == <<"C">>
D == <<"D">>
NOT_A == <<"N", "O", "T", " ", "A">>
NOT_B == <<"N", "O", "T", " ", "B">>
NOT_NOT_A == <<"N", "O", "T", " ", "N", "O", "T", " ", "A">>
NOTB == <<"N", "O", "T", "B">>

ord == [c \in {" ", "A", "B", "C", "D", "F", "N", "O", "T"} |->
          CASE c = " " -> 32 [] c = "A" -> 65 [] c = "B" -> 66 [] c = "C" -> 67
            [] c = "D" -> 68 [] c = "F" -> 70 [] c = "N" -> 78 [] c = "O" -> 79
            [] c = "T" -> 84]

RECURSIVE StrLess(_, _)
StrLess(s, t) ==
    IF s = <<>> THEN t # <<>>
    ELSE IF t = <<>> THEN FALSE
    ELSE IF Head(s) = Head(t) THEN StrLess(Tail(s), Tail(t))
    ELSE ord[Head(s)] < ord[Head(t)]

\* Mutant: descending order
RECURSIVE sorted_Descending(_)
sorted_Descending(S) ==
    IF S = {} THEN <<>>
    ELSE LET m == CHOOSE x \in S : \A y \in S \ {x} : StrLess(y, x)
         IN  <<m>> \o sorted_Descending(S \ {m})

RECURSIVE sorted(_)
sorted(S) ==
    IF S = {} THEN <<>>
    ELSE LET m == CHOOSE x \in S : \A y \in S \ {x} : StrLess(x, y)
         IN  <<m>> \o sorted(S \ {m})

startswith(s, p) == Len(s) >= Len(p) /\ SubSeq(s, 1, Len(p)) = p

\* Mutant: f[3:], the space of the prefix is kept
SliceFrom_KeepSpace(s, k) == SubSeq(s, k, Len(s))

\* s[k:]
SliceFrom(s, k) == SubSeq(s, k + 1, Len(s))

----------------------------------------------------------------------------
(* The AST and evaluate *)

Atom(n) == [kind |-> "Atom", name |-> n]
Not(f) == [kind |-> "Not", operand |-> f]
And(l, r) == [kind |-> "And", left |-> l, right |-> r]
Or(l, r) == [kind |-> "Or", left |-> l, right |-> r]
Xor(l, r) == [kind |-> "Xor", left |-> l, right |-> r]
Implies(l, r) == [kind |-> "Implies", left |-> l, right |-> r]
Iff(l, r) == [kind |-> "Iff", left |-> l, right |-> r]

RECURSIVE atoms(_)
atoms(f) ==
    IF f.kind = "Atom" THEN {f.name}
    ELSE IF f.kind = "Not" THEN atoms(f.operand)
    ELSE atoms(f.left) \cup atoms(f.right)

\* assignment.get(name, False)
Get(assignment, n) == IF n \in DOMAIN assignment THEN assignment[n] ELSE FALSE

RECURSIVE evaluate(_, _)
evaluate(f, assignment) ==
    IF f.kind = "Atom" THEN Get(assignment, f.name)
    ELSE IF f.kind = "Not" THEN ~evaluate(f.operand, assignment)
    ELSE IF f.kind = "And"
         THEN evaluate(f.left, assignment) /\ evaluate(f.right, assignment)
    ELSE IF f.kind = "Or"
         THEN evaluate(f.left, assignment) \/ evaluate(f.right, assignment)
    ELSE IF f.kind = "Xor"
         THEN evaluate(f.left, assignment) # evaluate(f.right, assignment)
    ELSE IF f.kind = "Implies"
         THEN (~evaluate(f.left, assignment)) \/ evaluate(f.right, assignment)
    ELSE evaluate(f.left, assignment) = evaluate(f.right, assignment)

----------------------------------------------------------------------------
(* Rules and forward chaining *)

Rule(id, premise, conclusion) ==
    [id |-> id, premise |-> premise, conclusion |-> conclusion]

conclusion_atoms(r) == atoms(r.conclusion)

\* dict(assignment) with test_assignment[a] = True
SetTrue(assignment, a) ==
    [n \in DOMAIN assignment \cup {a} |-> IF n = a THEN TRUE ELSE assignment[n]]

\* Mutant: the atom under test is not forced to True
_formula_to_atoms_NotForced(formula, assignment) ==
    {a \in atoms(formula) : evaluate(formula, assignment)}

_formula_to_atoms(formula, assignment) ==
    {a \in atoms(formula) : evaluate(formula, SetTrue(assignment, a))}

detect_contradictions(fs) ==
    LET positives == {f \in fs : ~startswith(f, <<"N", "O", "T", " ">>)}
        negatives == {SliceFrom(f, 4) : f \in {g \in fs : startswith(g, <<"N", "O", "T", " ">>)}}
        conflicts == sorted(positives \cap negatives)
    IN  [i \in 1..Len(conflicts) |->
            <<conflicts[i],
              <<"Contradiction between ", conflicts[i], " and NOT ", conflicts[i]>> >>]

\* assignment = {a: (a in facts) for a in rule.premise.atoms()}
PremiseAssignment(rule, fs) == [a \in atoms(rule.premise) |-> a \in fs]

\* Mutant: the line "new_atoms -= facts" is left out
NewAtoms_KeepKnown(rule, fs) ==
    _formula_to_atoms(rule.conclusion, PremiseAssignment(rule, fs))

\* new_atoms after "new_atoms -= facts"
NewAtoms(rule, fs) ==
    _formula_to_atoms(rule.conclusion, PremiseAssignment(rule, fs)) \ fs

PremiseHolds(rule, fs) == evaluate(rule.premise, PremiseAssignment(rule, fs))

\* Mutant: steps are numbered from 0
ForwardStep_FromZero(step, rule_id, inferred, explanation) ==
    [step |-> step - 1, rule_id |-> rule_id, inferred |-> inferred,
     explanation |-> explanation]

ForwardStep(step, rule_id, inferred, explanation) ==
    [step |-> step, rule_id |-> rule_id, inferred |-> inferred,
     explanation |-> explanation]

Explanation(counter, rule, new_atoms) ==
    [step |-> counter, rule_id |-> rule.id,
     because |-> sorted(atoms(rule.premise)), inferred |-> sorted(new_atoms)]

\* Mutant: the loop stops after one pass
AnotherPass_Never(fired) == FALSE

\* line 244: "if not fired_any: break"
AnotherPass(fired) == fired

\* forward_chain as a function of its arguments: one pass of the for loop from
\* rule i on, then the while loop; the result is the ForwardResult.
RECURSIVE FcPass(_, _, _, _, _)
FcPass(fs, sts, rs, i, fired) ==
    IF i > Len(rs) THEN [facts |-> fs, steps |-> sts, fired_any |-> fired]
    ELSE IF PremiseHolds(rs[i], fs) /\ NewAtoms(rs[i], fs) # {}
         THEN LET new_atoms == NewAtoms(rs[i], fs)
                  counter == Len(sts) + 1
              IN  FcPass(fs \cup new_atoms,
                         Append(sts, ForwardStep(counter, rs[i].id, new_atoms,
                                    Explanation(counter, rs[i], new_atoms))),
                         rs, i + 1, TRUE)
         ELSE FcPass(fs, sts, rs, i + 1, fired)

RECURSIVE FcLoop(_, _, _)
FcLoop(fs, sts, rs) ==
    LET p == FcPass(fs, sts, rs, 1, FALSE)
    IN  IF AnotherPass(p.fired_any) THEN FcLoop(p.facts, p.steps, rs)
        ELSE [final_facts |-> p.facts, steps |-> p.steps,
              contradictions |-> detect_contradictions(p.facts)]

forward_chain(init, rs) == FcLoop(init, <<>>, rs)

\* Inputs of forward_chain
FcAtomNames == {A, B, C}
FcFactNames == FcAtomNames \cup {NOT_A}

FcRulePool ==
    { <<Atom(A), Atom(B)>>,
      <<Atom(B), Atom(C)>>,
      <<Atom(B), Atom(A)>>,
      <<Atom(A), Atom(A)>>,
      <<And(Atom(A), Atom(B)), Atom(C)>>,
      <<Not(Atom(B)), Atom(A)>>,
      <<Not(Atom(A)), Atom(B)>>,
      <<Atom(A), And(Atom(B), Atom(C))>>,
      <<Atom(A), Xor(Atom(B), Atom(C))>>,
      <<Or(Atom(A), Atom(B)), Or(Atom(B), Atom(C))>>,
      <<Or(Atom(A), Atom(B)), Xor(Atom(A), Atom(C))>> }

RuleId(i) == "R" \o ToString(i)

RuleLists(pool, maxLen) ==
    UNION { { [i \in 1..n |-> Rule(RuleId(i), ps[i][1], ps[i][2])] :
                ps \in [1..n -> pool] } : n \in 0..maxLen }

\* generate_truth_table is not running
TtIdle ==
    /\ tt_pc = "idle"
    /\ formulas = <<>>
    /\ atoms_arg = <<>>
    /\ filter_formula = <<>>
    /\ atom_list = <<>>
    /\ values_i = 1
    /\ rows = <<>>

\* no Parser exists
PsIdle ==
    /\ ps_pc = "idle"
    /\ tokens = <<>>
    /\ pos = 1
    /\ parsed = <<>>

\* backward_chain is not running
BcIdle ==
    /\ bc_pc = "idle"
    /\ goal = <<>>
    /\ visited = {}
    /\ stack = <<>>
    /\ ret = <<>>
    /\ attempts = <<>>

InitFC ==
    /\ rules \in RuleLists(FcRulePool, MaxFcRules)
    /\ initial_facts \in SUBSET FcFactNames
    /\ facts = initial_facts
    /\ steps = <<>>
    /\ step_counter = 1
    /\ fired_any = FALSE
    /\ rule_idx = 1
    /\ contradictions = <<>>
    /\ pass_start = initial_facts
    /\ fc_pc = "for"
    /\ BcIdle
    /\ TtIdle
    /\ PsIdle

\* line 223: the premise is false, the rule is passed over
FcPremiseFalse ==
    /\ fc_pc = "for"
    /\ rule_idx <= Len(rules)
    /\ ~PremiseHolds(rules[rule_idx], facts)
    /\ rule_idx' = rule_idx + 1
    /\ UNCHANGED <<rules, fc_pc, initial_facts, facts, steps, step_counter,
                   fired_any, contradictions, pass_start, bcvars, ttvars, psvars>>

\* lines 224-227: the premise holds and nothing new follows: continue
FcNothingNew ==
    /\ fc_pc = "for"
    /\ rule_idx <= Len(rules)
    /\ PremiseHolds(rules[rule_idx], facts)
    /\ NewAtoms(rules[rule_idx], facts) = {}
    /\ rule_idx' = rule_idx + 1
    /\ UNCHANGED <<rules, fc_pc, initial_facts, facts, steps, step_counter,
                   fired_any, contradictions, pass_start, bcvars, ttvars, psvars>>

\* lines 228-243: the rule fires
FcFire ==
    /\ fc_pc = "for"
    /\ rule_idx <= Len(rules)
    /\ step_counter <= MaxSteps
    /\ PremiseHolds(rules[rule_idx], facts)
    /\ LET rule == rules[rule_idx]
           new_atoms == NewAtoms(rule, facts)
       IN  /\ new_atoms # {}
           /\ fired_any' = TRUE
           /\ facts' = facts \cup new_atoms
           /\ steps' = Append(steps,
                  ForwardStep(step_counter, rule.id, new_atoms,
                              Explanation(step_counter, rule, new_atoms)))
           /\ step_counter' = step_counter + 1
    /\ rule_idx' = rule_idx + 1
    /\ UNCHANGED <<rules, fc_pc, initial_facts, contradictions, pass_start, bcvars, ttvars, psvars>>

\* lines 219-220, 244: a pass that fired something is followed by another pass
FcNextPass ==
    /\ fc_pc = "for"
    /\ rule_idx > Len(rules)
    /\ AnotherPass(fired_any)
    /\ fired_any' = FALSE
    /\ rule_idx' = 1
    /\ pass_start' = facts
    /\ UNCHANGED <<rules, fc_pc, initial_facts, facts, steps, step_counter,
                   contradictions, bcvars, ttvars, psvars>>

\* lines 244-248: a pass that fired nothing ends the loop; the result is built
FcReturn ==
    /\ fc_pc = "for"
    /\ rule_idx > Len(rules)
    /\ ~AnotherPass(fired_any)
    /\ contradictions' = detect_contradictions(facts)
    /\ fc_pc' = "done"
    /\ UNCHANGED <<rules, initial_facts, facts, steps, step_counter, fired_any,
                   rule_idx, pass_start, bcvars, ttvars, psvars>>

NextFC == FcPremiseFalse \/ FcNothingNew \/ FcFire \/ FcNextPass \/ FcReturn

SpecFC == InitFC /\ [][NextFC]_vars

\* Fact sets with negated facts in them: "NOT A", "NOT B", the doubly negated
\* "NOT NOT A", and "NOTB", a name that only looks like a negation
NegatedFactNames == {A, B, NOT_A, NOT_B, NOT_NOT_A, NOTB}

\* forward_chain called with up to one rule on such a fact set
InitDC ==
    /\ rules \in RuleLists(FcRulePool, 1)
    /\ initial_facts \in SUBSET NegatedFactNames
    /\ facts = initial_facts
    /\ steps = <<>>
    /\ step_counter = 1
    /\ fired_any = FALSE
    /\ rule_idx = 1
    /\ contradictions = <<>>
    /\ pass_start = initial_facts
    /\ fc_pc = "for"
    /\ BcIdle
    /\ TtIdle
    /\ PsIdle

SpecDC == InitDC /\ [][NextFC]_vars

\* The loop of forward_chain runs on without interruption (§5: synchronous).
FairSpecFC == SpecFC /\ WF_vars(NextFC)

\* The ForwardResult returned at line 248
FcResult ==
    [final_facts |-> facts, steps |-> steps, contradictions |-> contradictions]

\* The step machine and the function agree on every input
FcMachineIsFunction ==
    fc_pc = "done" => FcResult = forward_chain(initial_facts, rules)

----------------------------------------------------------------------------
(* Backward chaining *)

\* Optional[str]: None is <<>>, a value v is <<v>>
None == <<>>
Some(v) == <<v>>

ProofNode(g, rule_id, premises, succeeded, message) ==
    [goal |-> g, rule_id |-> rule_id, premises |-> premises,
     succeeded |-> succeeded, message |-> message]

GivenMsg == <<"Given as a fact.">>
CycleMsg == <<"Cycle detected while proving this goal.">>
NoRulesMsg == <<"No rules conclude this goal.">>
AllFailedMsg == <<"All applicable rules failed to prove this goal.">>
ProvedMsg(g, id) == <<"Proved ", g, " using rule ", id, ".">>

\* Mutant: the rules that conclude the goal are tried last to first
applicable_rules_Reversed(g, rs) ==
    LET app == SelectSeq(rs, LAMBDA r : g \in conclusion_atoms(r))
    IN  [i \in 1..Len(app) |-> app[Len(app) + 1 - i]]

\* Mutant: every rule counts as concluding the goal
applicable_rules_Any(g, rs) == rs

\* line 280
applicable_rules(g, rs) == SelectSeq(rs, LAMBDA r : g \in conclusion_atoms(r))

\* Mutant: the cycle guard is left out
CycleGuard_Off(g, vis) == FALSE

\* line 270: "if goal in visited"
CycleGuard(g, vis) == g \in vis

\* One active call of backward_chain
Frame(g) ==
    [goal |-> g, pc |-> "enter", applicable |-> <<>>, rule_i |-> 1,
     prem_atoms |-> <<>>, atom_i |-> 1, sub_nodes |-> <<>>, all_ok |-> TRUE,
     tried |-> <<>>]

Top == stack[Len(stack)]

SetTop(f) == [stack EXCEPT ![Len(stack)] = f]

\* "return node": the call ends and its caller, if any, goes on
Return(node) ==
    /\ stack' = SubSeq(stack, 1, Len(stack) - 1)
    /\ ret' = Some(node)
    /\ bc_pc' = IF Len(stack) = 1 THEN "done" ELSE "run"

\* Inputs of backward_chain
BcGoals == {B, C, D}
BcFactNames == {A, B}

BcRulePool ==
    { <<Atom(A), Atom(B)>>,
      <<Atom(B), Atom(C)>>,
      <<Atom(B), Atom(A)>>,
      <<Atom(D), Atom(D)>>,
      <<And(Atom(C), Atom(B)), Atom(D)>>,
      <<Atom(A), Atom(D)>>,
      <<Atom(A), Or(Atom(B), Atom(C))>> }

FcIdle ==
    /\ fc_pc = "idle"
    /\ initial_facts = {}
    /\ steps = <<>>
    /\ step_counter = 1
    /\ fired_any = FALSE
    /\ rule_idx = 1
    /\ contradictions = <<>>
    /\ pass_start = {}

InitBC ==
    /\ rules \in RuleLists(BcRulePool, MaxBcRules)
    /\ facts \in SUBSET BcFactNames
    /\ goal \in BcGoals
    /\ visited = {}
    /\ stack = <<Frame(goal)>>
    /\ ret = None
    /\ attempts = <<>>
    /\ bc_pc = "run"
    /\ FcIdle
    /\ TtIdle
    /\ PsIdle

Entering == bc_pc = "run" /\ Top.pc = "enter"

\* lines 268-269
BcGivenFact ==
    /\ Entering
    /\ Top.goal \in facts
    /\ Return(ProofNode(Top.goal, None, <<>>, TRUE, GivenMsg))
    /\ attempts' = <<>>
    /\ UNCHANGED <<fcvars, ttvars, psvars, goal, visited>>

\* lines 270-277
BcCycle ==
    /\ Entering
    /\ Top.goal \notin facts
    /\ CycleGuard(Top.goal, visited)
    /\ Return(ProofNode(Top.goal, None, <<>>, FALSE, CycleMsg))
    /\ attempts' = <<>>
    /\ UNCHANGED <<fcvars, ttvars, psvars, goal, visited>>

\* lines 278-288
BcNoRules ==
    /\ Entering
    /\ Top.goal \notin facts
    /\ ~CycleGuard(Top.goal, visited)
    /\ visited' = visited \cup {Top.goal}
    /\ applicable_rules(Top.goal, rules) = <<>>
    /\ Return(ProofNode(Top.goal, None, <<>>, FALSE, NoRulesMsg))
    /\ attempts' = <<>>
    /\ UNCHANGED <<fcvars, ttvars, psvars, goal>>

\* lines 278-281, 290: the goal is marked visited and its rules are looked up
BcTryRules ==
    /\ Entering
    /\ Top.goal \notin facts
    /\ ~CycleGuard(Top.goal, visited)
    /\ visited' = visited \cup {Top.goal}
    /\ applicable_rules(Top.goal, rules) # <<>>
    /\ stack' = SetTop([Top EXCEPT !.pc = "rule",
                                   !.applicable = applicable_rules(Top.goal, rules),
                                   !.rule_i = 1])
    /\ UNCHANGED <<fcvars, ttvars, psvars, bc_pc, goal, ret, attempts>>

\* lines 290-293: the next applicable rule is taken up
BcRuleStart ==
    /\ bc_pc = "run"
    /\ Top.pc = "rule"
    /\ Top.rule_i <= Len(Top.applicable)
    /\ stack' = SetTop([Top EXCEPT
           !.pc = "prem",
           !.sub_nodes = <<>>,
           !.all_ok = TRUE,
           !.prem_atoms = sorted(atoms(Top.applicable[Top.rule_i].premise)),
           !.atom_i = 1])
    /\ UNCHANGED <<fcvars, ttvars, psvars, bc_pc, goal, visited, ret, attempts>>

\* lines 290, 307-313: no applicable rule is left
BcAllFailed ==
    /\ bc_pc = "run"
    /\ Top.pc = "rule"
    /\ Top.rule_i > Len(Top.applicable)
    /\ Return(ProofNode(Top.goal, None, <<>>, FALSE, AllFailedMsg))
    /\ attempts' = Top.tried
    /\ UNCHANGED <<fcvars, ttvars, psvars, goal, visited>>

\* lines 293-294: the recursive call for the next premise atom
BcCallPremise ==
    /\ bc_pc = "run"
    /\ Top.pc = "prem"
    /\ Top.atom_i <= Len(Top.prem_atoms)
    /\ Len(stack) < MaxDepth
    /\ stack' = Append(SetTop([Top EXCEPT !.pc = "wait"]),
                       Frame(Top.prem_atoms[Top.atom_i]))
    /\ UNCHANGED <<fcvars, ttvars, psvars, bc_pc, goal, visited, ret, attempts>>

\* lines 294-297: the call has returned its node
BcPremiseReturned ==
    /\ bc_pc = "run"
    /\ Top.pc = "wait"
    /\ ret # None
    /\ stack' = SetTop([Top EXCEPT
           !.pc = "prem",
           !.sub_nodes = Append(Top.sub_nodes, ret[1]),
           !.all_ok = IF ret[1].succeeded THEN Top.all_ok ELSE FALSE,
           !.atom_i = Top.atom_i + 1])
    /\ ret' = None
    /\ UNCHANGED <<fcvars, ttvars, psvars, bc_pc, goal, visited, attempts>>

Attempt(frame) ==
    [rule_id |-> frame.applicable[frame.rule_i].id, ok |-> frame.all_ok,
     sub_nodes |-> frame.sub_nodes]

\* lines 298-305: every premise was proved, the rule wins
BcRuleProved ==
    /\ bc_pc = "run"
    /\ Top.pc = "prem"
    /\ Top.atom_i > Len(Top.prem_atoms)
    /\ Top.all_ok
    /\ LET rule == Top.applicable[Top.rule_i]
       IN  Return(ProofNode(Top.goal, Some(rule.id), Top.sub_nodes, TRUE,
                            ProvedMsg(Top.goal, rule.id)))
    /\ attempts' = Append(Top.tried, Attempt(Top))
    /\ UNCHANGED <<fcvars, ttvars, psvars, goal, visited>>

\* lines 298, 290: some premise failed, the attempt is dropped
BcRuleFailed ==
    /\ bc_pc = "run"
    /\ Top.pc = "prem"
    /\ Top.atom_i > Len(Top.prem_atoms)
    /\ ~Top.all_ok
    /\ stack' = SetTop([Top EXCEPT !.pc = "rule",
                                   !.rule_i = Top.rule_i + 1,
                                   !.tried = Append(Top.tried, Attempt(Top))])
    /\ UNCHANGED <<fcvars, ttvars, psvars, bc_pc, goal, visited, ret, attempts>>

NextBC ==
    \/ BcGivenFact \/ BcCycle \/ BcNoRules \/ BcTryRules \/ BcRuleStart
    \/ BcAllFailed \/ BcCallPremise \/ BcPremiseReturned \/ BcRuleProved
    \/ BcRuleFailed

SpecBC == InitBC /\ [][NextBC]_vars

\* The recursion of backward_chain runs on without interruption (§5).
FairSpecBC == SpecBC /\ WF_vars(NextBC)

----------------------------------------------------------------------------
(* Truth tables *)

\* Mutant: the first factor varies fastest
RECURSIVE product_FirstFastest(_, _)
product_FirstFastest(pool, repeat) ==
    IF repeat = 0 THEN << <<>> >>
    ELSE LET prev == product_FirstFastest(pool, repeat - 1)
         IN  [k \in 1..(Len(prev) * Len(pool)) |->
                <<pool[((k - 1) % Len(pool)) + 1]>> \o prev[((k - 1) \div Len(pool)) + 1]]

\* itertools.product(pool, repeat=n): result = [x + [y] for x in result for y in pool]
RECURSIVE product(_, _)
product(pool, repeat) ==
    IF repeat = 0 THEN << <<>> >>
    ELSE LET prev == product(pool, repeat - 1)
         IN  [k \in 1..(Len(prev) * Len(pool)) |->
                Append(prev[((k - 1) \div Len(pool)) + 1], pool[((k - 1) % Len(pool)) + 1])]

Elems(seq) == {seq[i] : i \in 1..Len(seq)}

\* list(dict.fromkeys(atoms)): the first occurrence of every name, in order
RECURSIVE fromkeys(_)
fromkeys(seq) ==
    IF seq = <<>> THEN <<>>
    ELSE LET init == fromkeys(SubSeq(seq, 1, Len(seq) - 1))
             last == seq[Len(seq)]
         IN  IF last \in Elems(init) THEN init ELSE Append(init, last)

\* dict(zip(atom_list, values))
zip_dict(names, values) ==
    [a \in Elems(names) |-> values[CHOOSE i \in 1..Len(names) : names[i] = a]]

\* d[k] = v
Put(d, k, v) == [x \in DOMAIN d \cup {k} |-> IF x = k THEN v ELSE d[x]]

\* lines 114-116
RECURSIVE inferred_atoms(_)
inferred_atoms(fs) ==
    IF fs = <<>> THEN {} ELSE atoms(Head(fs)[2]) \cup inferred_atoms(Tail(fs))

\* lines 126-127: "for name, f in formulas: row[name] = evaluate(f, assignment)"
RECURSIVE WithFormulas(_, _, _)
WithFormulas(row, fs, assignment) ==
    IF fs = <<>> THEN row
    ELSE WithFormulas(Put(row, Head(fs)[1], evaluate(Head(fs)[2], assignment)),
                      Tail(fs), assignment)

\* lines 124-127: the row of one tuple of values, before the filter
RowOf(names, values, fs) ==
    LET assignment == zip_dict(names, values)
    IN  WithFormulas([a \in Elems(names) |-> assignment[a]], fs, assignment)

\* Inputs of generate_truth_table
F == <<"F">>
G == <<"G">>

TtAtomNames == {A, B, C}
TtFormulaPool ==
    { <<F, And(Atom(A), Atom(B))>>,
      <<G, Not(Atom(C))>>,
      <<A, Not(Atom(A))>>,
      <<C, Implies(Atom(B), Atom(C))>> }
TtFilters == {None, Some(<<F, Or(Atom(A), Atom(B))>>)}

SeqsUpTo(S, n) == UNION {[1..k -> S] : k \in 0..n}

InitTT ==
    /\ formulas \in SeqsUpTo(TtFormulaPool, MaxFormulas)
    /\ atoms_arg \in {None} \cup {Some(l) : l \in SeqsUpTo(TtAtomNames, MaxAtomList)}
    /\ filter_formula \in TtFilters
    /\ atom_list = <<>>
    /\ values_i = 1
    /\ rows = <<>>
    /\ tt_pc = "start"
    /\ FcIdle /\ rules = <<>> /\ facts = {}
    /\ BcIdle
    /\ PsIdle

\* lines 112-122: the atom list is fixed
TtAtomList ==
    /\ tt_pc = "start"
    /\ atom_list' = IF atoms_arg # None THEN fromkeys(atoms_arg[1])
                    ELSE sorted(inferred_atoms(formulas))
    /\ tt_pc' = "loop"
    /\ UNCHANGED <<fcvars, bcvars, psvars, formulas, atoms_arg, filter_formula,
                   values_i, rows>>

Values == product(<<FALSE, TRUE>>, Len(atom_list))

\* lines 123-133: one assignment, its row appended
TtRow ==
    /\ tt_pc = "loop"
    /\ values_i <= Len(Values)
    /\ LET row == RowOf(atom_list, Values[values_i], formulas)
       IN  \/ /\ filter_formula = None
              /\ rows' = Append(rows, row)
           \/ /\ filter_formula # None
              /\ evaluate(filter_formula[1][2], zip_dict(atom_list, Values[values_i]))
              /\ rows' = Append(rows, Put(row, filter_formula[1][1], TRUE))
    /\ values_i' = values_i + 1
    /\ UNCHANGED <<fcvars, bcvars, psvars, tt_pc, formulas, atoms_arg,
                   filter_formula, atom_list>>

\* lines 128-131: the filter formula is false, the row is dropped
TtRowFiltered ==
    /\ tt_pc = "loop"
    /\ values_i <= Len(Values)
    /\ filter_formula # None
    /\ ~evaluate(filter_formula[1][2], zip_dict(atom_list, Values[values_i]))
    /\ values_i' = values_i + 1
    /\ UNCHANGED <<fcvars, bcvars, psvars, tt_pc, formulas, atoms_arg,
                   filter_formula, atom_list, rows>>

\* line 135
TtReturn ==
    /\ tt_pc = "loop"
    /\ values_i > Len(Values)
    /\ tt_pc' = "done"
    /\ UNCHANGED <<fcvars, bcvars, psvars, formulas, atoms_arg, filter_formula,
                   atom_list, values_i, rows>>

NextTT == TtAtomList \/ TtRow \/ TtRowFiltered \/ TtReturn

SpecTT == InitTT /\ [][NextTT]_vars

----------------------------------------------------------------------------
(* The parser *)

Token(kind, value) == [kind |-> kind, value |-> value]

\* What a parsing method hands back: a node and the position after it, or the
\* ParseError it raised and the position where it was raised
Ok(node, p) == [ok |-> TRUE, node |-> node, pos |-> p]
ParseError(what, found, p) ==
    [ok |-> FALSE, node |-> [kind |-> "ParseError", what |-> what, found |-> found],
     pos |-> p]

\* Mutant: parse does not look at what follows the formula
AtEnd_Unchecked(toks, p) == TRUE

\* line 144: self.current.kind == "EOF"
AtEnd(toks, p) == toks[p].kind = "EOF"

\* Mutant: OR and AND change places in the order of the levels
BinaryLevels_AndBelowOr == <<"IFF", "IMPLIES", "AND", "XOR", "OR">>

\* The binary levels of the grammar, loosest first (parse_iff, parse_implies,
\* parse_or, parse_xor, parse_and), then parse_unary and parse_primary
BinaryLevels == <<"IFF", "IMPLIES", "OR", "XOR", "AND">>
UnaryLevel == Len(BinaryLevels) + 1
PrimaryLevel == Len(BinaryLevels) + 2

\* Iff(left=node, right=right), Implies(...), Or(...), Xor(...), And(...)
BinaryNode(lvl, l, r) ==
    CASE lvl = 1 -> Iff(l, r)
      [] lvl = 2 -> Implies(l, r)
      [] lvl = 3 -> Or(l, r)
      [] lvl = 4 -> Xor(l, r)
      [] lvl = 5 -> And(l, r)

RECURSIVE ParseLevel(_, _, _), WhileAccept(_, _, _)

\* "while self.accept(KIND) is not None: right = <next level>; node = KIND(node, right)"
\* of the binary level lvl, the left operand parsed
WhileAccept(toks, left, lvl) ==
    IF ~left.ok \/ toks[left.pos].kind # BinaryLevels[lvl] THEN left
    ELSE LET right == ParseLevel(toks, left.pos + 1, lvl + 1)
         IN  IF ~right.ok THEN right
             ELSE WhileAccept(toks, Ok(BinaryNode(lvl, left.node, right.node), right.pos), lvl)

\* The parsing method of a level, from position p
ParseLevel(toks, p, lvl) ==
    IF lvl < UnaryLevel
    THEN \* lines 150-183: node = <next level>, then the while loop
         WhileAccept(toks, ParseLevel(toks, p, lvl + 1), lvl)
    ELSE IF lvl = UnaryLevel
    THEN \* lines 185-189
         IF toks[p].kind = "NOT"
         THEN LET operand == ParseLevel(toks, p + 1, UnaryLevel)
              IN  IF operand.ok THEN Ok(Not(operand.node), operand.pos) ELSE operand
         ELSE ParseLevel(toks, p, PrimaryLevel)
    ELSE \* lines 191-202
         IF toks[p].kind = "("
         THEN LET inner == ParseLevel(toks, p + 1, 1)
              IN  IF ~inner.ok THEN inner
                  ELSE IF toks[inner.pos].kind = ")" THEN Ok(inner.node, inner.pos + 1)
                  ELSE ParseError("Expected )", toks[inner.pos].kind, inner.pos)
         ELSE IF toks[p].kind = "IDENT" THEN Ok(Atom(toks[p].value), p + 1)
         ELSE ParseError("Expected an atom or (", toks[p].kind, p)

parse_iff(toks, p) == ParseLevel(toks, p, 1)
parse_implies(toks, p) == ParseLevel(toks, p, 2)
parse_or(toks, p) == ParseLevel(toks, p, 3)
parse_xor(toks, p) == ParseLevel(toks, p, 4)
parse_and(toks, p) == ParseLevel(toks, p, 5)
parse_unary(toks, p) == ParseLevel(toks, p, UnaryLevel)
parse_primary(toks, p) == ParseLevel(toks, p, PrimaryLevel)

\* lines 142-148
parse(toks) ==
    LET r == parse_iff(toks, 1)
    IN  IF ~r.ok THEN r
        ELSE IF ~AtEnd(toks, r.pos)
             THEN ParseError("Unexpected token after end of formula", toks[r.pos].kind, r.pos)
        ELSE r

\* Inputs of the parser: what tokenize can produce, the EOF token last
TokenKinds == {"(", ")", "AND", "OR", "NOT", "XOR", "IMPLIES", "IFF", "IDENT"}

Letters == <<"A", "B", "C", "D", "E", "F", "G", "H">>

\* The text of the token of a kind at position i; identifiers are named apart
TokenText(kind, i) ==
    CASE kind = "IDENT" -> <<Letters[i]>>
      [] kind = "AND" -> <<"&">>
      [] kind = "OR" -> <<"|">>
      [] kind = "NOT" -> <<"~">>
      [] kind = "XOR" -> <<"X", "O", "R">>
      [] kind = "IMPLIES" -> <<"-", ">">>
      [] kind = "IFF" -> <<"<", "-", ">">>
      [] OTHER -> <<kind>>

TokenLists ==
    { [i \in 1..(Len(ks) + 1) |->
          IF i <= Len(ks) THEN Token(ks[i], TokenText(ks[i], i)) ELSE Token("EOF", <<>>)] :
      ks \in SeqsUpTo(TokenKinds, MaxTokens) }

\* The token kinds of a formula without parentheses: operand k is an
\* identifier after nots[k] NOT tokens, and ops[k] stands between operands k
\* and k + 1
RECURSIVE ChainKinds(_, _, _)
ChainKinds(nots, ops, k) ==
    [i \in 1..nots[k] |-> "NOT"] \o <<"IDENT">> \o
    (IF k = Len(nots) THEN <<>> ELSE <<ops[k]>> \o ChainKinds(nots, ops, k + 1))

\* Formulas without parentheses of up to MaxOperands identifiers, longer than
\* TokenLists reaches; the k-th identifier is the k-th letter
ChainLists ==
    UNION { { LET ks == ChainKinds(nots, ops, 1)
                  idents(i) == Cardinality({j \in 1..i : ks[j] = "IDENT"})
              IN  [i \in 1..(Len(ks) + 1) |->
                      IF i > Len(ks) THEN Token("EOF", <<>>)
                      ELSE IF ks[i] = "IDENT" THEN Token("IDENT", <<Letters[idents(i)]>>)
                      ELSE Token(ks[i], TokenText(ks[i], i))] :
              nots \in [1..n -> 0..MaxNots],
              ops \in [1..(n - 1) -> Elems(BinaryLevels)] } :
            n \in 1..MaxOperands }

InitPS ==
    /\ tokens \in TokenLists \cup ChainLists
    /\ pos = 1
    /\ parsed = <<>>
    /\ ps_pc = "ready"
    /\ FcIdle /\ rules = <<>> /\ facts = {}
    /\ BcIdle
    /\ TtIdle

\* lines 142-148 with no exception raised
PsParse ==
    /\ ps_pc = "ready"
    /\ parse(tokens).ok
    /\ parsed' = parse(tokens)
    /\ pos' = parse(tokens).pos
    /\ ps_pc' = "done"
    /\ UNCHANGED <<fcvars, bcvars, ttvars, tokens>>

\* parse raises ParseError
PsParseError ==
    /\ ps_pc = "ready"
    /\ ~parse(tokens).ok
    /\ parsed' = parse(tokens)
    /\ pos' = parse(tokens).pos
    /\ ps_pc' = "done"
    /\ UNCHANGED <<fcvars, bcvars, ttvars, tokens>>

NextPS == PsParse \/ PsParseError

SpecPS == InitPS /\ [][NextPS]_vars

----------------------------------------------------------------------------
(* The whole program: one of the four entry points is called *)

Init == InitFC \/ InitBC \/ InitTT \/ InitPS

Next == NextFC \/ NextBC \/ NextTT \/ NextPS

Spec == Init /\ [][Next]_vars

----------------------------------------------------------------------------
(* Properties of forward_chain *)

RECURSIVE NegationFree(_)
NegationFree(f) ==
    IF f.kind = "Atom" THEN TRUE
    ELSE IF f.kind \in {"And", "Or"} THEN NegationFree(f.left) /\ NegationFree(f.right)
    ELSE FALSE

Orderings(n) == {p \in [1..n -> 1..n] : \A i, j \in 1..n : p[i] = p[j] => i = j}

Reorder(rs, p) == [i \in 1..Len(rs) |-> rs[p[i]]]

AllNegationFree ==
    \A i \in 1..Len(rules) :
        NegationFree(rules[i].premise) /\ NegationFree(rules[i].conclusion)

SameFinalFactsInEveryOrder ==
    \A p \in Orderings(Len(rules)) :
        forward_chain(initial_facts, Reorder(rules, p)).final_facts = facts

\* C1 as stated: the final fact set is the same for every ordering of the rule
\* list, whatever the rules are.
C1_OrderIndependent ==
    fc_pc = "done" => SameFinalFactsInEveryOrder

\* C1 amended: when every premise and every conclusion is built from atoms with
\* AND and OR only, every ordering of the rule list gives the same final facts.
C1_OrderIndependentNegationFree ==
    (fc_pc = "done" /\ AllNegationFree) => SameFinalFactsInEveryOrder

StepRuleIds(sts) == [k \in 1..Len(sts) |-> sts[k].rule_id]

\* Two negation-free rules that fire in a different order when swapped
C1_Witness ==
    /\ fc_pc = "done"
    /\ AllNegationFree
    /\ Len(steps) >= 2
    /\ \E p \in Orderings(Len(rules)) :
          LET r == forward_chain(initial_facts, Reorder(rules, p))
          IN  StepRuleIds(r.steps) # StepRuleIds(steps) /\ r.final_facts = facts

\* The atoms the claim expects a firing to add: every atom other than a is
\* true iff it is in the working fact set.
NewAtomsAllFactsFixed(rule, fs) ==
    {a \in atoms(rule.conclusion) \ fs :
        evaluate(rule.conclusion,
                 [n \in atoms(rule.conclusion) |-> n = a \/ n \in fs])}

\* The same with only the premise's atoms taken from the fact set: every other
\* atom is true iff it is an atom of the premise and in the working fact set.
NewAtomsPremiseFactsFixed(rule, fs) ==
    {a \in atoms(rule.conclusion) \ fs :
        evaluate(rule.conclusion,
                 [n \in atoms(rule.conclusion) |->
                     n = a \/ (n \in atoms(rule.premise) /\ n \in fs)])}

Fires == Len(steps') = Len(steps) + 1

\* C3 as stated: a firing adds exactly the conclusion atoms not yet known that
\* make the conclusion true when forced, all known facts held fixed.
C3_AddsAllFactsFixed ==
    [][Fires =>
         /\ facts' = facts \cup NewAtomsAllFactsFixed(rules[rule_idx], facts)
         /\ steps'[Len(steps')].inferred = NewAtomsAllFactsFixed(rules[rule_idx], facts)]_vars

\* What forward_chain does instead: a firing adds the conclusion atoms not yet
\* known that make the conclusion true when forced, where any other atom counts
\* as true only if it occurs in the rule's premise and is in the fact set.
AddsPremiseFactsFixed ==
    [][Fires =>
         /\ facts' = facts \cup NewAtomsPremiseFactsFixed(rules[rule_idx], facts)
         /\ steps'[Len(steps')].inferred = NewAtomsPremiseFactsFixed(rules[rule_idx], facts)]_vars

FactsBefore(k) == initial_facts \cup UNION {steps[j].inferred : j \in 1..(k - 1)}

RuleById(id) == rules[CHOOSE i \in 1..Len(rules) : rules[i].id = id]

\* A rule has fired where a known fact outside the premise occurs in the
\* conclusion, so that the two readings differ
ReadingsDiffer ==
    \E k \in 1..Len(steps) :
        LET r == RuleById(steps[k].rule_id)
        IN  /\ steps[k].inferred = NewAtomsPremiseFactsFixed(r, FactsBefore(k))
            /\ steps[k].inferred # NewAtomsAllFactsFixed(r, FactsBefore(k))

RuleAtoms ==
    UNION {atoms(rules[i].premise) \cup atoms(rules[i].conclusion) : i \in 1..Len(rules)}

PassEnded == fc_pc = "for" /\ rule_idx > Len(rules)

\* C4: forward_chain terminates; the fact set never shrinks, stays inside the
\* initial facts plus the atoms of the rules, and a pass that added no fact is
\* the last one (the cap on the number of steps is never what stops a firing).
C4_Terminates ==
    /\ <>(fc_pc = "done")
    /\ [][facts \subseteq facts']_vars
    /\ [](facts \subseteq initial_facts \cup RuleAtoms)
    /\ [](PassEnded => (fired_any <=> facts # pass_start))
    /\ [](step_counter <= MaxSteps)

\* A run of several passes over rules with negation and a cycle has ended
C4_Witness ==
    /\ fc_pc = "done"
    /\ pass_start # initial_facts
    /\ \E i \in 1..Len(rules) : rules[i].premise.kind = "Not"
    /\ Len(steps) >= 2

\* C8: the trace accounts for the growth of the fact set: the facts are the
\* initial facts united with the inferred sets, steps are numbered 1..k, one
\* per firing, and each inferred set is non-empty and new.
C8_TraceAccountsForFacts ==
    /\ facts = initial_facts \cup UNION {steps[k].inferred : k \in 1..Len(steps)}
    /\ step_counter = Len(steps) + 1
    /\ \A k \in 1..Len(steps) :
          /\ steps[k].step = k
          /\ steps[k].inferred # {}
          /\ steps[k].inferred \cap FactsBefore(k) = {}

\* A finished run with two firings
C8_Witness ==
    /\ fc_pc = "done"
    /\ Len(steps) >= 2
    /\ initial_facts # {}
    /\ \E k \in 1..Len(steps) : Cardinality(steps[k].inferred) = 2

\* The negated-fact form of a name: "NOT " followed by the name
Negated(x) == <<"N", "O", "T", " ">> \o x

\* A fact string of the negated form stands for a negation, any other is a name
IsName(s) == Len(s) < 4 \/ SubSeq(s, 1, 4) # <<"N", "O", "T", " ">>

\* The names that are in the fact set together with their negated form
Contradicted(fs) == {x \in fs : IsName(x) /\ Negated(x) \in fs}

\* A list with one entry for each name of the set and no other, in the order
\* of the names, each with the message that names the pair
EntriesFor(entries, names) ==
    /\ Len(entries) = Cardinality(names)
    /\ {entries[i][1] : i \in 1..Len(entries)} = names
    /\ \A i \in 1..(Len(entries) - 1) : StrLess(entries[i][1], entries[i + 1][1])
    /\ \A i \in 1..Len(entries) :
          entries[i][2] = <<"Contradiction between ", entries[i][1], " and NOT ",
                            entries[i][1]>>

\* C12: detect_contradictions(facts) has one entry for exactly the names X
\* with both X and "NOT X" in facts, none for any other name, in the order of
\* the names; and the contradictions of a forward_chain result are
\* detect_contradictions of its final_facts.
C12_ContradictionsOfFinalFacts ==
    /\ EntriesFor(detect_contradictions(facts), Contradicted(facts))
    /\ fc_pc = "done" =>
          /\ contradictions = detect_contradictions(facts)
          /\ EntriesFor(contradictions, Contradicted(facts))
          /\ FcResult.contradictions = detect_contradictions(FcResult.final_facts)

\* forward_chain has returned the contradictions of A and of B, in this
\* order, A having been derived by a rule, with "NOT NOT A" among the facts
C12_Witness ==
    /\ fc_pc = "done"
    /\ A \notin initial_facts
    /\ NOT_NOT_A \in facts
    /\ Len(contradictions) = 2
    /\ contradictions[1][1] = A
    /\ contradictions[2][1] = B

----------------------------------------------------------------------------
(* Properties of backward_chain *)

\* The goals of the calls that are still active: the current recursion path
PathGoals == {stack[i].goal : i \in 1..Len(stack)}

\* C2: a call returns the 'Cycle detected' node only for a goal that is one of
\* its own ancestor goals, i.e. the goal of a call still active.
C2_CycleOnlyOnPath ==
    (ret # None /\ ret[1].message = CycleMsg) => ret[1].goal \in PathGoals

SelfRule(i) ==
    /\ rules[i].premise = Atom(D)
    /\ rules[i].conclusion = Atom(D)

SelfRuleOnly == goal = D /\ facts = {} /\ Len(rules) = 1 /\ SelfRule(1)

RECURSIVE IsProofNode(_)
IsProofNode(n) ==
    /\ DOMAIN n = {"goal", "rule_id", "premises", "succeeded", "message"}
    /\ n.succeeded \in BOOLEAN
    /\ n.rule_id = None \/ \E i \in 1..Len(rules) : n.rule_id = Some(rules[i].id)
    /\ \A k \in 1..Len(n.premises) : IsProofNode(n.premises[k])

Returned == bc_pc = "done" /\ stack = <<>> /\ ret # None /\ IsProofNode(ret[1])

\* C5: backward_chain terminates and returns a ProofNode for the outermost
\* goal; with the single rule D -> D, goal D and no facts that node has
\* succeeded = false. The recursion is never cut short by the depth cap.
C5_Terminates ==
    /\ <>Returned
    /\ [](bc_pc = "done" => (Returned /\ ret[1].goal = goal))
    /\ []((bc_pc = "done" /\ SelfRuleOnly) => ~ret[1].succeeded)
    /\ [](Len(stack) <= MaxDepth - 1)

\* The self-referential run has ended in failure
C5_Witness == Returned /\ SelfRuleOnly /\ ~ret[1].succeeded

RuleIndex(id) == CHOOSE i \in 1..Len(rules) : rules[i].id = id

Concludes(i, g) == g \in atoms(rules[i].conclusion)

AllSucceeded(nodes) == \A k \in 1..Len(nodes) : nodes[k].succeeded

\* C6: a node proved through a rule names the first rule, in rule-list order
\* among those that conclude the goal, whose premise sub-proofs all succeeded:
\* every earlier such rule was tried and failed, no later rule was tried, and
\* the children are the sub-proofs of the winning rule alone.
C6_FirstSuccessfulRuleWins ==
    (ret # None /\ ret[1].rule_id # None) =>
        LET w == RuleIndex(ret[1].rule_id[1])
            earlier == {i \in 1..(w - 1) : Concludes(i, ret[1].goal)}
            n == Len(attempts)
        IN  /\ Concludes(w, ret[1].goal)
            /\ n = Cardinality(earlier) + 1
            /\ attempts[n].rule_id = rules[w].id
            /\ attempts[n].ok /\ AllSucceeded(attempts[n].sub_nodes)
            /\ ret[1].premises = attempts[n].sub_nodes
            /\ Len(ret[1].premises) = Cardinality(atoms(rules[w].premise))
            /\ \A k \in 1..(n - 1) :
                 /\ RuleIndex(attempts[k].rule_id) \in earlier
                 /\ k > 1 => RuleIndex(attempts[k - 1].rule_id) < RuleIndex(attempts[k].rule_id)
                 /\ ~attempts[k].ok /\ ~AllSucceeded(attempts[k].sub_nodes)
                 /\ \A j \in 1..Len(ret[1].premises) :
                      \A m \in 1..Len(attempts[k].sub_nodes) :
                         ~attempts[k].sub_nodes[m].succeeded =>
                            ret[1].premises[j] # attempts[k].sub_nodes[m]

\* The second rule for the goal won after the first one failed
C6_Witness ==
    /\ bc_pc = "done"
    /\ ret[1].rule_id # None
    /\ Len(attempts) = 2
    /\ Len(applicable_rules(goal, rules)) = 3

RECURSIVE WellFormed(_)
WellFormed(n) ==
    /\ (n.rule_id # None) <=> (n.succeeded /\ n.goal \notin facts)
    /\ n.goal \in facts => (n.succeeded /\ n.rule_id = None /\ n.premises = <<>>)
    /\ ~n.succeeded => n.premises = <<>>
    /\ n.rule_id # None =>
         LET r == rules[RuleIndex(n.rule_id[1])]
         IN  /\ Len(n.premises) = Cardinality(atoms(r.premise))
             /\ {n.premises[k].goal : k \in 1..Len(n.premises)} = atoms(r.premise)
             /\ \A j, k \in 1..Len(n.premises) :
                    j < k => StrLess(n.premises[j].goal, n.premises[k].goal)
             /\ \A k \in 1..Len(n.premises) :
                    n.premises[k].succeeded /\ WellFormed(n.premises[k])

\* C7: every node of a returned tree is well formed: rule_id is set iff the
\* node succeeded and its goal is not a fact; a fact node succeeds with no
\* rule_id and no premises; a failed node has no premises; a node proved via a
\* rule has one succeeded child per premise atom, in name-sorted order.
C7_WellFormedTree == ret # None => WellFormed(ret[1])

RECURSIVE Height(_)
Height(n) ==
    IF n.premises = <<>> THEN 1
    ELSE 1 + Height(n.premises[CHOOSE k \in 1..Len(n.premises) :
                       \A j \in 1..Len(n.premises) :
                           Height(n.premises[j]) <= Height(n.premises[k])])

\* A proof of height 3 through a rule with two premise atoms was returned
C7_Witness ==
    /\ bc_pc = "done"
    /\ ret[1].succeeded
    /\ Len(ret[1].premises) = 2
    /\ Height(ret[1]) >= 3

\* A conjunction of atoms (one atom included)
RECURSIVE ConjunctionOfAtoms(_)
ConjunctionOfAtoms(f) ==
    \/ f.kind = "Atom"
    \/ f.kind = "And" /\ ConjunctionOfAtoms(f.left) /\ ConjunctionOfAtoms(f.right)

\* Every premise is a conjunction of atoms and every conclusion one atom
DefiniteRules ==
    \A i \in 1..Len(rules) :
        ConjunctionOfAtoms(rules[i].premise) /\ rules[i].conclusion.kind = "Atom"

\* The goals of the nodes of a proof tree that succeeded
RECURSIVE ProvedGoals(_)
ProvedGoals(n) ==
    (IF n.succeeded THEN {n.goal} ELSE {}) \cup
    UNION {ProvedGoals(n.premises[k]) : k \in 1..Len(n.premises)}

\* C13: with rules whose premises are conjunctions of atoms and whose
\* conclusions are single atoms, a goal that backward_chain reports as proved
\* is among the final facts of forward_chain on the same facts and rules, and
\* so is every sub-goal proved in the tree.
C13_BackwardSoundForForward ==
    (Returned /\ DefiniteRules /\ ret[1].succeeded) =>
        /\ goal \in forward_chain(facts, rules).final_facts
        /\ ProvedGoals(ret[1]) \subseteq forward_chain(facts, rules).final_facts

\* A goal that is not a fact has been proved through two rules, the first of
\* them over a conjunction, and forward chaining derives it in two steps
C13_Witness ==
    /\ Returned /\ DefiniteRules /\ ret[1].succeeded
    /\ goal \notin facts
    /\ Height(ret[1]) >= 3
    /\ \E i \in 1..Len(rules) :
          rules[i].id = ret[1].rule_id[1] /\ rules[i].premise.kind = "And"
    /\ Len(forward_chain(facts, rules).steps) >= 2

----------------------------------------------------------------------------
(* Properties of generate_truth_table *)

RECURSIVE Pow2(_)
Pow2(n) == IF n = 0 THEN 1 ELSE 2 * Pow2(n - 1)

\* Bit number b (0 the least significant) of k
Bit(k, b) == (k \div Pow2(b)) % 2 = 1

\* The table is the binary counter over the atom list
CountsInBinary ==
    LET n == Len(atom_list)
    IN  /\ Len(rows) = Pow2(n)
        /\ \A k \in 1..Len(rows) : \A i \in 1..n :
               /\ atom_list[i] \in DOMAIN rows[k]
               /\ rows[k][atom_list[i]] = Bit(k - 1, n - i)

\* Every formula column holds the formula's value under the row's own atoms
FormulaColumnsEvaluate ==
    \A k \in 1..Len(rows) : \A j \in 1..Len(formulas) :
        /\ formulas[j][1] \in DOMAIN rows[k]
        /\ rows[k][formulas[j][1]] =
              evaluate(formulas[j][2],
                       [a \in Elems(atom_list) \cap DOMAIN rows[k] |-> rows[k][a]])

\* C9: without a filter the table has 2^n rows, the atoms counting in binary
\* with the last atom as the least significant bit, and every formula column
\* equal to evaluate of the formula under the row's assignment.
C9_TruthTable ==
    (tt_pc = "done" /\ filter_formula = None) =>
        (CountsInBinary /\ FormulaColumnsEvaluate)

NamesApart ==
    /\ \A j \in 1..Len(formulas) : formulas[j][1] \notin Elems(atom_list)
    /\ \A i, j \in 1..Len(formulas) : formulas[i][1] = formulas[j][1] => i = j

\* The table is as described when no formula is named like an atom of the
\* table or like another formula
TtTableWhenNamesApart ==
    (tt_pc = "done" /\ filter_formula = None /\ NamesApart) =>
        (CountsInBinary /\ FormulaColumnsEvaluate)

\* An eight-row table with a formula column has been returned
TtTableReached ==
    /\ tt_pc = "done" /\ filter_formula = None /\ NamesApart
    /\ Len(atom_list) = 3 /\ Len(formulas) >= 1 /\ Len(rows) = 8

----------------------------------------------------------------------------
(* Properties of the parser *)

Kinds == [i \in 1..(Len(tokens) - 1) |-> tokens[i].kind]

BinaryKinds == {"AND", "OR", "XOR", "IMPLIES", "IFF"}
OperandStart == {"IDENT", "NOT", "("}

Count(ks, kind) == Cardinality({i \in 1..Len(ks) : ks[i] = kind})

\* The token sequences of the grammar, told from the tokens alone: an operand
\* starts the input and follows every operator and "(", an operand's end is
\* followed by a binary operator, ")" or the end, and parentheses balance.
Grammatical(ks) ==
    /\ ks # <<>>
    /\ ks[1] \in OperandStart
    /\ ks[Len(ks)] \in {"IDENT", ")"}
    /\ \A i \in 1..(Len(ks) - 1) :
          IF ks[i] \in {"IDENT", ")"} THEN ks[i + 1] \in BinaryKinds \cup {")"}
          ELSE ks[i + 1] \in OperandStart
    /\ Count(ks, "(") = Count(ks, ")")
    /\ \A i \in 1..Len(ks) :
          Count(SubSeq(ks, 1, i), ")") <= Count(SubSeq(ks, 1, i), "(")

\* The operator and identifier tokens of a tree, left to right
RECURSIVE Yield(_)
Yield(n) ==
    IF n.kind = "Atom" THEN <<n.name>>
    ELSE IF n.kind = "Not" THEN <<"NOT">> \o Yield(n.operand)
    ELSE Yield(n.left) \o <<CASE n.kind = "And" -> "AND" [] n.kind = "Or" -> "OR"
                              [] n.kind = "Xor" -> "XOR" [] n.kind = "Implies" -> "IMPLIES"
                              [] n.kind = "Iff" -> "IFF">> \o Yield(n.right)

\* The tokens other than parentheses, identifiers by name, operators by kind
RECURSIVE Unparenthesised(_)
Unparenthesised(toks) ==
    IF toks = <<>> \/ Head(toks).kind = "EOF" THEN <<>>
    ELSE IF Head(toks).kind \in {"(", ")"} THEN Unparenthesised(Tail(toks))
    ELSE <<IF Head(toks).kind = "IDENT" THEN Head(toks).value ELSE Head(toks).kind>>
         \o Unparenthesised(Tail(toks))

OperatorWithoutOperand ==
    \E i \in 1..Len(Kinds) :
        /\ Kinds[i] \in BinaryKinds
        /\ i = Len(Kinds) \/ Kinds[i + 1] \notin OperandStart

\* C10: parse never returns a partial parse: it returns a formula only with
\* the position on the EOF token and every token accounted for in the tree,
\* and it raises ParseError for every input outside the grammar: an operator
\* without an operand, unbalanced parentheses, empty input, trailing tokens.
C10_NoPartialParse ==
    ps_pc = "done" =>
        /\ parsed.ok <=> Grammatical(Kinds)
        /\ parsed.ok =>
              /\ pos = Len(tokens)
              /\ Yield(parsed.node) = Unparenthesised(tokens)
        /\ ~parsed.ok => parsed.node.kind = "ParseError"
        /\ OperatorWithoutOperand => ~parsed.ok
        /\ Count(Kinds, "(") # Count(Kinds, ")") => ~parsed.ok
        /\ Kinds = <<>> => ~parsed.ok
        /\ pos \in 1..Len(tokens)

\* 'A AND AND B' has been refused
C10_Witness ==
    /\ ps_pc = "done"
    /\ Kinds = <<"IDENT", "AND", "AND", "IDENT">>
    /\ ~parsed.ok

\* The precedence of the operator at the root of a tree: the binary levels
\* loosest first, then NOT, then an atom
Prec(n) ==
    CASE n.kind = "Iff" -> 1
      [] n.kind = "Implies" -> 2
      [] n.kind = "Or" -> 3
      [] n.kind = "Xor" -> 4
      [] n.kind = "And" -> 5
      [] n.kind = "Not" -> 6
      [] n.kind = "Atom" -> 7

\* No operator has a looser operator below it, no binary operator has the
\* same operator as its right operand (chains fold to the left), and the
\* operand of NOT is a NOT or an atom
RECURSIVE PrecedenceShaped(_)
PrecedenceShaped(n) ==
    CASE n.kind = "Atom" -> TRUE
      [] n.kind = "Not" -> Prec(n.operand) >= Prec(n) /\ PrecedenceShaped(n.operand)
      [] OTHER -> /\ Prec(n.left) >= Prec(n)
                  /\ Prec(n.right) > Prec(n)
                  /\ PrecedenceShaped(n.left)
                  /\ PrecedenceShaped(n.right)

\* The tree of a formula without parentheses, read off the tokens: the root is
\* the last of the loosest binary operators, a formula without binary
\* operators is its NOTs applied to its atom
RECURSIVE SplitTree(_)
SplitTree(ts) ==
    LET binary == {i \in 1..Len(ts) : ts[i] \in BinaryKinds}
        node(kind, l, r) == CASE kind = "IFF" -> Iff(l, r)
                              [] kind = "IMPLIES" -> Implies(l, r)
                              [] kind = "OR" -> Or(l, r)
                              [] kind = "XOR" -> Xor(l, r)
                              [] kind = "AND" -> And(l, r)
    IN  IF binary = {}
        THEN IF ts[1] = "NOT" THEN Not(SplitTree(Tail(ts))) ELSE Atom(ts[1])
        ELSE LET level(i) == Prec(node(ts[i], Atom(A), Atom(A)))
                 root == CHOOSE i \in binary :
                            \A j \in binary :
                                level(i) < level(j) \/ (level(i) = level(j) /\ j <= i)
             IN  node(ts[root], SplitTree(SubSeq(ts, 1, root - 1)),
                      SplitTree(SubSeq(ts, root + 1, Len(ts))))

NoParentheses == \A i \in 1..Len(Kinds) : Kinds[i] \notin {"(", ")"}

\* C11: the tree parse builds for a formula without parentheses follows the
\* precedence order IFF < IMPLIES < OR < XOR < AND < NOT < primary: a looser
\* operator is never below a tighter one, every chain of one binary operator
\* (-> and <-> included) is folded to the left, NOT applies to the NOT or atom
\* right after it, and the tree reads back as the tokens; so it is the tree
\* split at the last loosest operator.
C11_PrecedenceAndLeftFold ==
    (ps_pc = "done" /\ parsed.ok /\ NoParentheses) =>
        /\ PrecedenceShaped(parsed.node)
        /\ Yield(parsed.node) = Unparenthesised(tokens)
        /\ parsed.node = SplitTree(Unparenthesised(tokens))

\* 'A -> NOT B -> C' has been parsed as (A -> NOT B) -> C
C11_Witness ==
    /\ ps_pc = "done"
    /\ Kinds = <<"IDENT", "IMPLIES", "NOT", "IDENT", "IMPLIES", "IDENT">>
    /\ parsed.ok
    /\ parsed.node = Implies(Implies(Atom(<<"A">>), Not(Atom(<<"B">>))), Atom(<<"C">>))

====
